---- MODULE Spec2Model ----
(***************************************************************************)
(* Model of AnningGao/QFA, src/model.py (class Adam, step_scheduler) and   *)
(* src/utils.py (MatrixInverse, MatrixLogDet).                             *)
(*                                                                         *)
(* Numbers.  The optimizer works on float32 tensors and takes a square     *)
(* root, so its arithmetic is modelled in fixed point: a value x stands    *)
(* for the real x / SCALE, products and quotients are rescaled and         *)
(* truncated toward zero.  The matrix functions only add, multiply and     *)
(* divide, so they are modelled with exact rationals <<num, den>>.         *)
(*                                                                         *)
(* Tensors of the optimizer are 1-D sequences; torch's broadcasting rule   *)
(* (equal lengths, or one of them 1) is kept, a violation of it is a       *)
(* RuntimeError.  Dicts are functions whose DOMAIN is the key set; a       *)
(* missing key is a KeyError.                                              *)
(***************************************************************************)
EXTENDS Integers, Sequences, FiniteSets, TLC

VARIABLES
    params,         \* the caller's parameter dict (passed to update / reset)
    m, v, i,        \* self.m, self.v, self.i
    learning_rate, b1, b2, eps, weight_decay, device, scheduler,  \* self.*
    last,           \* the most recent call on the optimizer and how it ended
    hist,           \* the calls made on the optimizer so far: <<op, outcome>>
    keys0,          \* key set of the params given to __init__ or the latest reset
    call,           \* pure functions: the pending call and its arguments
    res             \* pure functions: the outcome of the call

advars == <<params, m, v, i, learning_rate, b1, b2, eps, weight_decay, device,
            scheduler, last, hist, keys0>>
hyper == <<learning_rate, b1, b2, eps, weight_decay, device, scheduler>>
purevars == <<call, res>>
vars == <<params, m, v, i, learning_rate, b1, b2, eps, weight_decay, device,
          scheduler, last, hist, keys0, call, res>>

----------------------------------------------------------------------------
(* Bounds *)

MaxCalls == 3       \* calls made on one optimizer
MaxIter == 3        \* cap on self.i
MaxSchedIter == 21  \* iterations at which the scheduler is evaluated
MaxNpix == 2        \* rows of M, length of D
MaxNh == 2          \* columns of M

----------------------------------------------------------------------------
(* Fixed-point arithmetic standing for torch.float32 *)

SCALE == 1000

Quot(a, b) == IF a >= 0 THEN a \div b ELSE -((-a) \div b)

FMul(x, y) == Quot(x * y, SCALE)

FDiv(x, y) == Quot(x * SCALE, y)

RECURSIVE FPow(_, _)
FPow(x, n) == IF n = 0 THEN SCALE ELSE FMul(x, FPow(x, n - 1))

RECURSIVE ISqrtBetween(_, _, _)
ISqrtBetween(n, lo, hi) ==
    IF hi - lo <= 1 THEN lo
    ELSE LET mid == (lo + hi) \div 2
         IN  IF mid * mid <= n THEN ISqrtBetween(n, mid, hi)
                               ELSE ISqrtBetween(n, lo, mid)

FSqrt(x) == ISqrtBetween(x * SCALE, 0, 46340)

----------------------------------------------------------------------------
(* Tensors: element-wise operations with broadcasting *)

Broadcastable(s, t) == Len(s) = Len(t) \/ Len(s) = 1 \/ Len(t) = 1

BLen(s, t) == IF Len(s) >= Len(t) THEN Len(s) ELSE Len(t)

At(s, j) == IF Len(s) = 1 THEN s[1] ELSE s[j]

TAdd(s, t) == [j \in 1..BLen(s, t) |-> At(s, j) + At(t, j)]

TSub(s, t) == [j \in 1..BLen(s, t) |-> At(s, j) - At(t, j)]

TMul(s, t) == [j \in 1..BLen(s, t) |-> FMul(At(s, j), At(t, j))]

TDiv(s, t) == [j \in 1..BLen(s, t) |-> FDiv(At(s, j), At(t, j))]

SMul(c, t) == [j \in 1..Len(t) |-> FMul(c, t[j])]

SDiv(t, c) == [j \in 1..Len(t) |-> FDiv(t[j], c)]

SAdd(t, c) == [j \in 1..Len(t) |-> t[j] + c]

TSqrt(t) == [j \in 1..Len(t) |-> FSqrt(t[j])]

ZerosLike(t) == [j \in 1..Len(t) |-> 0]

Zeros(p) == [k \in DOMAIN p |-> ZerosLike(p[k])]

EmptyDict == [k \in {} |-> <<>>]

----------------------------------------------------------------------------
(* Inputs of the optimizer *)

Keys == {"a", "b"}

ParamVals == {SCALE}

GradVals == {-SCALE}

Shapes == {1, 2}

Tensors(vals) == {[j \in 1..n |-> x] : n \in Shapes, x \in vals}

\* the key sets of the dicts passed in: nested, so that one dict can lack a key of another
KeySets == {K \in SUBSET Keys : "a" \in K}

Dicts(vals) == UNION {[K -> Tensors(vals)] : K \in KeySets}

ParamMaps == Dicts(ParamVals)

GradMaps == Dicts(GradVals)

NoScheduler == [kind |-> "None", alpha |-> 0, step |-> 1]

Schedulers == {NoScheduler, [kind |-> "step_scheduler", alpha |-> SCALE \div 2, step |-> 2]}

LearningRates == {SCALE \div 100}

----------------------------------------------------------------------------
(* step_scheduler: lr * alpha ** ((i + 1) // step) *)

\* the scheduler as it would be with i // step for (i + 1) // step
StepSchedulerOff(alpha, step, it, lr) == FMul(lr, FPow(alpha, it \div step))

StepScheduler(alpha, step, it, lr) == FMul(lr, FPow(alpha, (it + 1) \div step))

(* Adam.scheduled_lr, read at iteration it *)
Callable(s) == s.kind # "None"

ScheduledLr(it) ==
    IF Callable(scheduler)
    THEN StepScheduler(scheduler.alpha, scheduler.step, it, learning_rate)
    ELSE learning_rate

----------------------------------------------------------------------------
(* Adam.update as a function of the optimizer state and its arguments.     *)
(* Each dict comprehension either builds the whole dict or raises before   *)
(* the assignment it feeds.  The result is the set of outcomes the call    *)
(* can have; there is more than one only when it raises, since which key   *)
(* raises first depends on the iteration order of the caller's dicts.      *)

\* the errors of a comprehension over the keys of d that reads other[k]
\* and combines the two tensors element-wise
Errors(d, other) ==
    (IF \E k \in DOMAIN d : k \notin DOMAIN other THEN {"KeyError"} ELSE {})
    \cup
    (IF \E k \in DOMAIN d \cap DOMAIN other : ~Broadcastable(d[k], other[k])
     THEN {"RuntimeError"} ELSE {})

Raised(e, mm, vv, n, it) ==
    [outcome |-> e, m |-> mm, v |-> vv, value |-> EmptyDict,
     sched_calls |-> [j \in 1..n |-> <<it, learning_rate>>]]

AdamUpdate(mm, vv, it, p, g) ==
    LET e41  == Errors(g, p)
        g1   == [k \in DOMAIN g |-> TAdd(g[k], SMul(weight_decay, p[k]))]
        e42  == Errors(g1, mm)
        m1   == [k \in DOMAIN g1 |->
                    TAdd(SMul(SCALE - b1, g1[k]), SMul(b1, mm[k]))]
        e43  == Errors(g1, vv)
        v1   == [k \in DOMAIN g1 |->
                    TAdd(TMul(SMul(SCALE - b2, g1[k]), g1[k]), SMul(b2, vv[k]))]
        mhat == [k \in DOMAIN g1 |-> SDiv(m1[k], SCALE - FPow(b1, it + 1))]
        vhat == [k \in DOMAIN g1 |-> SDiv(v1[k], SCALE - FPow(b2, it + 1))]
        e46  == Errors(p, mhat)
        good == DOMAIN p \cap DOMAIN mhat
        new  == [k \in DOMAIN p |->
                    TSub(p[k], TDiv(SMul(ScheduledLr(it), mhat[k]),
                                    SAdd(TSqrt(vhat[k]), eps)))]
        nall == IF Callable(scheduler) THEN Cardinality(DOMAIN p) ELSE 0
    IN  IF e41 # {} THEN {Raised(e, mm, vv, 0, it) : e \in e41}
        ELSE IF e42 # {} THEN {Raised(e, mm, vv, 0, it) : e \in e42}
        ELSE IF e43 # {} THEN {Raised(e, m1, vv, 0, it) : e \in e43}
        ELSE IF e46 # {}
             THEN {Raised(e, m1, v1, IF Callable(scheduler) THEN n + 1 ELSE 0, it) :
                       e \in e46, n \in 0..Cardinality(good)}
        ELSE {[outcome |-> "ok", m |-> m1, v |-> v1, value |-> new,
               sched_calls |-> [j \in 1..nall |-> <<it, learning_rate>>]]}

----------------------------------------------------------------------------
(* The optimizer and its caller *)

Done(op, out, p, g, val, sc) ==
    [op |-> op, outcome |-> out, params |-> p, g |-> g, value |-> val,
     sched_calls |-> sc]

NoCall == [fn |-> "none"]

NoRes == [outcome |-> "none"]

\* the moments and the counter as __init__ leaves them
Fresh(p) == [m |-> Zeros(p), v |-> Zeros(p), i |-> 0]

\* Adam.__init__(params, device, scheduler, learning_rate, b1, b2, eps, weight_decay)
Init ==
    /\ params \in ParamMaps
    /\ learning_rate \in LearningRates
    /\ b1 = (9 * SCALE) \div 10
    /\ b2 = (9 * SCALE) \div 10
    /\ eps = SCALE \div 1000
    /\ weight_decay = SCALE \div 1000
    /\ device = "cpu"
    /\ scheduler \in Schedulers
    /\ m = Fresh(params).m
    /\ v = Fresh(params).v
    /\ i = Fresh(params).i
    /\ last = Done("init", "ok", params, EmptyDict, EmptyDict, <<>>)
    /\ hist = <<>>
    /\ keys0 = DOMAIN params
    /\ call = NoCall
    /\ res = NoRes

\* update as it would be if it advanced the counter itself
updateAdvancesI ==
    /\ Len(hist) < MaxCalls
    /\ \E g \in GradMaps : \E r \in AdamUpdate(m, v, i, params, g) :
          /\ m' = r.m
          /\ v' = r.v
          /\ last' = Done("update", r.outcome, params, g, r.value, r.sched_calls)
          /\ hist' = Append(hist, <<"update", r.outcome>>)
    /\ i' = i + 1
    /\ UNCHANGED <<params, hyper, keys0, purevars>>

\* new = optimizer.update(params, g)
update ==
    /\ Len(hist) < MaxCalls
    /\ \E g \in GradMaps : \E r \in AdamUpdate(m, v, i, params, g) :
          /\ m' = r.m
          /\ v' = r.v
          /\ last' = Done("update", r.outcome, params, g, r.value, r.sched_calls)
          /\ hist' = Append(hist, <<"update", r.outcome>>)
    /\ UNCHANGED <<params, i, hyper, keys0, purevars>>

\* reset as it would be if it left the counter alone
resetKeepsI ==
    /\ Len(hist) < MaxCalls
    /\ m' = Zeros(params)
    /\ v' = Zeros(params)
    /\ last' = Done("reset", "ok", params, EmptyDict, EmptyDict, <<>>)
    /\ hist' = Append(hist, <<"reset", "ok">>)
    /\ keys0' = DOMAIN params
    /\ UNCHANGED <<params, i, hyper, purevars>>

\* optimizer.reset(params)
reset ==
    /\ Len(hist) < MaxCalls
    /\ m' = Zeros(params)
    /\ v' = Zeros(params)
    /\ i' = 0
    /\ last' = Done("reset", "ok", params, EmptyDict, EmptyDict, <<>>)
    /\ hist' = Append(hist, <<"reset", "ok">>)
    /\ keys0' = DOMAIN params
    /\ UNCHANGED <<params, hyper, purevars>>

\* step as it would be with self.i = 1 for self.i += 1
stepSetsOne ==
    /\ Len(hist) < MaxCalls
    /\ i < MaxIter
    /\ i' = 1
    /\ last' = Done("step", "ok", EmptyDict, EmptyDict, EmptyDict, <<>>)
    /\ hist' = Append(hist, <<"step", "ok">>)
    /\ UNCHANGED <<params, m, v, hyper, keys0, purevars>>

\* optimizer.step()
step ==
    /\ Len(hist) < MaxCalls
    /\ i < MaxIter
    /\ i' = i + 1
    /\ last' = Done("step", "ok", EmptyDict, EmptyDict, EmptyDict, <<>>)
    /\ hist' = Append(hist, <<"step", "ok">>)
    /\ UNCHANGED <<params, m, v, hyper, keys0, purevars>>

\* the caller binds its params to another dict
CallerSetParams ==
    /\ \E p \in ParamMaps : params' = p
    /\ params' # params
    /\ UNCHANGED <<m, v, i, hyper, last, hist, keys0, purevars>>

\* the caller keeps what update returned: params = optimizer.update(params, g)
CallerAdopt ==
    /\ last.op = "update"
    /\ last.outcome = "ok"
    /\ params' = last.value
    /\ params' # params
    /\ UNCHANGED <<m, v, i, hyper, last, hist, keys0, purevars>>

Next == update \/ reset \/ step \/ CallerSetParams \/ CallerAdopt

Spec == Init /\ [][Next]_vars

----------------------------------------------------------------------------
(* Exact rationals <<num, den>>, den > 0, in lowest terms *)

Abs(x) == IF x < 0 THEN -x ELSE x

RECURSIVE Gcd(_, _)
Gcd(a, b) == IF b = 0 THEN a ELSE Gcd(b, a % b)

Rat(n, d) ==
    LET sg == IF d < 0 THEN -1 ELSE 1
        g  == Gcd(Abs(n), Abs(d))
    IN  <<(sg * n) \div g, (sg * d) \div g>>

RZero == <<0, 1>>

ROne == <<1, 1>>

RAdd(x, y) == Rat(x[1] * y[2] + y[1] * x[2], x[2] * y[2])

RSub(x, y) == Rat(x[1] * y[2] - y[1] * x[2], x[2] * y[2])

RMul(x, y) == Rat(x[1] * y[1], x[2] * y[2])

RNeg(x) == <<-x[1], x[2]>>

RInv(x) == Rat(x[2], x[1])

----------------------------------------------------------------------------
(* Matrices: [nr, nc, a], a[<<r, c>>] the entry of row r and column c *)

\* the function f, its entries computed once
Entries(f) == IF f = f THEN f ELSE f

Index(nr, nc) == (1..nr) \X (1..nc)

RECURSIVE DotFrom(_, _, _, _, _)
DotFrom(A, B, r, c, k) ==
    IF k = 0 THEN RZero
    ELSE RAdd(DotFrom(A, B, r, c, k - 1), RMul(A.a[<<r, k>>], B.a[<<k, c>>]))

\* A @ B
MatMul(A, B) ==
    [nr |-> A.nr, nc |-> B.nc,
     a |-> Entries([rc \in Index(A.nr, B.nc) |-> DotFrom(A, B, rc[1], rc[2], A.nc)])]

\* A - B
MatSub(A, B) ==
    [nr |-> A.nr, nc |-> B.nc,
     a |-> Entries([rc \in Index(A.nr, B.nc) |-> RSub(A.a[rc], B.a[rc])])]

\* A + B
MatAdd(A, B) ==
    [nr |-> A.nr, nc |-> B.nc,
     a |-> Entries([rc \in Index(A.nr, B.nc) |-> RAdd(A.a[rc], B.a[rc])])]

\* A.T
Transpose(A) ==
    [nr |-> A.nc, nc |-> A.nr,
     a |-> Entries([rc \in Index(A.nc, A.nr) |-> A.a[<<rc[2], rc[1]>>]])]

\* torch.diag(d) of a vector d
Diag(d) ==
    [nr |-> Len(d), nc |-> Len(d),
     a |-> Entries([rc \in Index(Len(d), Len(d)) |->
                       IF rc[1] = rc[2] THEN d[rc[1]] ELSE RZero])]

\* torch.eye(n)
Eye(n) ==
    [nr |-> n, nc |-> n,
     a |-> Entries([rc \in Index(n, n) |-> IF rc[1] = rc[2] THEN ROne ELSE RZero])]

\* A without row r and column c
MinorAt(A, r, c) ==
    [nr |-> A.nr - 1, nc |-> A.nc - 1,
     a |-> Entries([jk \in Index(A.nr - 1, A.nc - 1) |->
                       A.a[<<IF jk[1] < r THEN jk[1] ELSE jk[1] + 1,
                             IF jk[2] < c THEN jk[2] ELSE jk[2] + 1>>]])]

Det2(a, b, c, d) == RSub(RMul(a, d), RMul(b, c))

\* torch.linalg.det(A), for a square A of at most 3 rows
Det(A) ==
    LET e(r, c) == A.a[<<r, c>>]
    IN  CASE A.nr = 0 -> ROne
          [] A.nr = 1 -> e(1, 1)
          [] A.nr = 2 -> Det2(e(1, 1), e(1, 2), e(2, 1), e(2, 2))
          [] A.nr = 3 ->
                RAdd(RSub(RMul(e(1, 1), Det2(e(2, 2), e(2, 3), e(3, 2), e(3, 3))),
                          RMul(e(1, 2), Det2(e(2, 1), e(2, 3), e(3, 1), e(3, 3)))),
                     RMul(e(1, 3), Det2(e(2, 1), e(2, 2), e(3, 1), e(3, 2))))

\* torch.linalg.inv(A) of an invertible A
Cofactor(A, r, c) ==
    IF (r + c) % 2 = 0 THEN Det(MinorAt(A, r, c)) ELSE RNeg(Det(MinorAt(A, r, c)))

Inv(A) ==
    [nr |-> A.nr, nc |-> A.nc,
     a |-> Entries([rc \in Index(A.nr, A.nc) |->
                       RMul(Cofactor(A, rc[2], rc[1]), RInv(Det(A)))])]

----------------------------------------------------------------------------
(* MatrixInverse and MatrixLogDet.  M is a matrix of Npix rows and Nh        *)
(* columns, D a vector of length Npix.  A call returns a tensor, whose       *)
(* entries are all finite or not (inf, nan), or raises.  1./D is inf where D *)
(* is 0, and then every entry of I + M.T@diagD@M is inf or nan; what         *)
(* torch.linalg.inv makes of such a matrix depends on the backend, so both   *)
(* outcomes are kept.  torch.linalg.inv raises on a singular matrix;         *)
(* torch.log of a negative number is nan, of 0 is -inf; neither raises.      *)

Returned(val) == [outcome |-> "returned", finite |-> TRUE, value |-> val]

NonFinite == [outcome |-> "returned", finite |-> FALSE, value |-> <<>>]

Raises(e) == [outcome |-> "raised", finite |-> FALSE, value |-> e]

RecipD(D) == [p \in 1..Len(D) |-> RInv(D[p])]

\* I + M.T @ diagD @ M
Inner(M, D) ==
    LET diagD == Diag(RecipD(D))
    IN  MatAdd(Eye(M.nc), MatMul(MatMul(Transpose(M), diagD), M))

\* MatrixInverse as it would be without the I of I + M.T@diagD@M
MatrixInverseNoEye(M, D) ==
    IF \E p \in 1..Len(D) : D[p][1] = 0
    THEN IF M.nc = 0 THEN {NonFinite} ELSE {NonFinite, Raises("LinAlgError")}
    ELSE LET diagD == Diag(RecipD(D))
             inner == MatMul(MatMul(Transpose(M), diagD), M)
         IN  IF Det(inner) = RZero THEN {Raises("LinAlgError")}
             ELSE {Returned(MatSub(diagD,
                     MatMul(MatMul(MatMul(MatMul(diagD, M), Inv(inner)),
                                   Transpose(M)), diagD)))}

MatrixInverse(M, D) ==
    IF \E p \in 1..Len(D) : D[p][1] = 0
    THEN IF M.nc = 0 THEN {NonFinite} ELSE {NonFinite, Raises("LinAlgError")}
    ELSE LET diagD == Diag(RecipD(D))
             inner == Inner(M, D)
         IN  IF Det(inner) = RZero THEN {Raises("LinAlgError")}
             ELSE {Returned(MatSub(diagD,
                     MatMul(MatMul(MatMul(MatMul(diagD, M), Inv(inner)),
                                   Transpose(M)), diagD)))}

RECURSIVE ProdFrom(_, _)
ProdFrom(D, p) == IF p = 0 THEN ROne ELSE RMul(ProdFrom(D, p - 1), D[p])

\* the value returned is log(x) for the x given as logof: a sum of logarithms
\* of positive numbers is the logarithm of their product
MatrixLogDet(M, D) ==
    IF \E p \in 1..Len(D) : D[p][1] <= 0
    THEN {NonFinite}
    ELSE LET d == Det(Inner(M, D))
         IN  IF d[1] <= 0 THEN {NonFinite}
             ELSE {Returned([logof |-> RMul(ProdFrom(D, Len(D)), d)])}

----------------------------------------------------------------------------
(* Calls of the pure functions *)

MVals == {<<0, 1>>, <<1, 1>>}

DVals == {<<-1, 1>>, <<0, 1>>, <<1, 2>>, <<2, 1>>}

\* the matrices of nr rows and nc columns
Matrices(nr, nc) ==
    {[nr |-> nr, nc |-> nc, a |-> f] : f \in [(1..nr) \X (1..nc) -> MVals]}

\* the vectors of length n
Vectors(n) == [1..n -> DVals]

SchedLRs == {SCALE \div 100, (4 * SCALE) \div 10}

\* M of shape (Npix, Nh) and D of shape (Npix,)
MatrixCalls(Npix, Nh) ==
    {[fn |-> f, M |-> M, D |-> D] :
        f \in {"MatrixInverse", "MatrixLogDet"},
        M \in Matrices(Npix, Nh), D \in Vectors(Npix)}

SchedulerCalls ==
    [fn : {"scheduler"}, alpha : {SCALE \div 2}, step : {10},
     it : 0..MaxSchedIter, lr : SchedLRs]

PureInit ==
    /\ \/ \E Npix \in 1..MaxNpix, Nh \in 0..MaxNh : call \in MatrixCalls(Npix, Nh)
       \/ call \in SchedulerCalls
    /\ res = NoRes
    /\ params = EmptyDict
    /\ m = EmptyDict
    /\ v = EmptyDict
    /\ i = 0
    /\ learning_rate = 0
    /\ b1 = 0
    /\ b2 = 0
    /\ eps = 0
    /\ weight_decay = 0
    /\ device = "cpu"
    /\ scheduler = NoScheduler
    /\ last = Done("none", "ok", EmptyDict, EmptyDict, EmptyDict, <<>>)
    /\ hist = <<>>
    /\ keys0 = {}

CallMatrixInverse ==
    /\ call.fn = "MatrixInverse"
    /\ res = NoRes
    /\ res' \in MatrixInverse(call.M, call.D)
    /\ UNCHANGED <<call, advars>>

CallMatrixLogDet ==
    /\ call.fn = "MatrixLogDet"
    /\ res = NoRes
    /\ res' \in MatrixLogDet(call.M, call.D)
    /\ UNCHANGED <<call, advars>>

\* step_scheduler(alpha, step)(it, lr)
CallScheduler ==
    /\ call.fn = "scheduler"
    /\ res = NoRes
    /\ res' = Returned(StepScheduler(call.alpha, call.step, call.it, call.lr))
    /\ UNCHANGED <<call, advars>>

PureNext == CallMatrixInverse \/ CallMatrixLogDet \/ CallScheduler

PureSpec == PureInit /\ [][PureNext]_vars

----------------------------------------------------------------------------
(* Properties of the optimizer *)

\* some call on the optimizer is made in this step, and it is op
Called(op) == Len(hist') = Len(hist) + 1 /\ last'.op = op

NonZero(d) == \E k \in DOMAIN d : \E j \in 1..Len(d[k]) : d[k][j] # 0

\* C1: step() increases i by exactly 1 and leaves m, v, the hyperparameters,
\* the device and the scheduler as they were.
C1_StepOnlyIncrementsI ==
    [][Called("step") => (i' = i + 1 /\ m' = m /\ v' = v /\ hyper' = hyper)]_vars

\* step() has been called on an optimizer whose moments are not zero
C1_Witness ==
    /\ last.op = "step"
    /\ i >= 1
    /\ NonZero(m)
    /\ NonZero(v)

\* C2: update(params, g) changes neither i nor the caller's params dict: of
\* the optimizer's state only m and v may differ after it, however many
\* updates follow one another.
C2_UpdateKeepsIAndParams ==
    [][Called("update") => (i' = i /\ params' = params /\ hyper' = hyper)]_vars

\* two updates in a row, the second returning a dict that differs from params
C2_Witness ==
    /\ Len(hist) >= 2
    /\ hist[Len(hist) - 1] = <<"update", "ok">>
    /\ hist[Len(hist)] = <<"update", "ok">>
    /\ last.value # last.params
    /\ NonZero(last.params)

\* C3: reset(params) leaves i = 0 and m, v zero, keyed and shaped per params,
\* and an update(params, g) that follows it ends as, returns what, and leaves
\* the m, v and i that the same update does on a newly constructed optimizer.
C3_ResetThenUpdateIsFresh ==
    [][/\ Called("reset") =>
            /\ m' = Fresh(params).m
            /\ v' = Fresh(params).v
            /\ i' = Fresh(params).i
       /\ (last.op = "reset" /\ Called("update") /\ last'.params = last.params) =>
            \E r \in AdamUpdate(Fresh(last.params).m, Fresh(last.params).v,
                                Fresh(last.params).i, last.params, last'.g) :
               /\ last'.outcome = r.outcome
               /\ last'.value = r.value
               /\ last'.sched_calls = r.sched_calls
               /\ m' = r.m
               /\ v' = r.v
               /\ i' = Fresh(last.params).i
      ]_vars

\* update, then reset, then an update that returns
C3_Witness ==
    /\ hist = <<<<"update", "ok">>, <<"reset", "ok">>, <<"update", "ok">>>>
    /\ NonZero(m)
    /\ last.value # last.params

\* C5: an update that returns invokes a configured scheduler exactly once,
\* with (i, learning_rate), whatever the number of keys of params; with no
\* scheduler configured it invokes none.
C5_SchedulerCalledOncePerUpdate ==
    [][(Called("update") /\ last'.outcome = "ok") =>
          last'.sched_calls = IF Callable(scheduler)
                              THEN <<<<i, learning_rate>>>>
                              ELSE <<>>]_vars

\* C6: an update whose params and g differ in their key sets, or differ from
\* the key set given at construction or at the latest reset, raises; it
\* returns no parameter dict.
C6_MismatchedKeysRaise ==
    (/\ last.op = "update"
     /\ \/ DOMAIN last.params # DOMAIN last.g
        \/ DOMAIN last.params # keys0)
    => last.outcome # "ok"

\* C9: as long as every call returned without error, m and v have the keys of
\* the params given at construction or at the latest reset.
C9_MomentKeysAreParamKeys ==
    (\A j \in 1..Len(hist) : hist[j][2] = "ok")
    => (DOMAIN m = DOMAIN v /\ DOMAIN m = keys0)

\* C10: an update that raises leaves m, v and i as they were.
C10_FailedUpdateLeavesState ==
    [][(Called("update") /\ last'.outcome # "ok")
          => (m' = m /\ v' = v /\ i' = i)]_vars

----------------------------------------------------------------------------
(* Properties of the pure functions *)

Half == SCALE \div 2

Quarter == SCALE \div 4

\* a call of the scheduler built by step_scheduler(alpha = 0.5, step = 10)
\* has returned
StaircaseReturned ==
    /\ call.fn = "scheduler"
    /\ call.alpha = Half
    /\ call.step = 10
    /\ res.outcome = "returned"

\* C4, as stated: scheduler(9, lr) = lr, scheduler(10, lr) = lr * 0.5,
\* scheduler(19, lr) = lr * 0.5 and scheduler(20, lr) = lr * 0.25.
C4_HalvedAtTenAndTwenty ==
    StaircaseReturned =>
        /\ call.it = 9 => res.value = call.lr
        /\ call.it = 10 => res.value = FMul(call.lr, Half)
        /\ call.it = 19 => res.value = FMul(call.lr, Half)
        /\ call.it = 20 => res.value = FMul(call.lr, Quarter)

\* C4, amended: the learning rate is lr up to iteration 8, lr * 0.5 from
\* iteration 9 to 18 and lr * 0.25 from iteration 19 to 28: it is first
\* halved at iteration 9 and halved again at iteration 19.
C4_HalvedAtNineAndNineteen ==
    StaircaseReturned =>
        /\ call.it <= 8 => res.value = call.lr
        /\ (9 <= call.it /\ call.it <= 18) => res.value = FMul(call.lr, Half)
        /\ (19 <= call.it /\ call.it <= 28) => res.value = FMul(call.lr, Quarter)

\* the scheduler has returned lr * 0.25 at iteration 19
C4_Witness ==
    /\ StaircaseReturned
    /\ call.it = 19
    /\ res.value = FMul(call.lr, Quarter)
    /\ res.value # FMul(call.lr, Half)

MatrixCallEnded ==
    /\ call.fn \in {"MatrixInverse", "MatrixLogDet"}
    /\ res.outcome # "none"

\* C7: MatrixInverse and MatrixLogDet raise when D has an entry that is zero
\* or negative; they return no result for such a D.
C7_NonPositiveDRaises ==
    (MatrixCallEnded /\ \E p \in 1..Len(call.D) : call.D[p][1] <= 0)
    => res.outcome = "raised"

\* M @ M.T + diag(D), formed densely
Sigma(M, D) == MatAdd(MatMul(M, Transpose(M)), Diag(D))

\* C8: for D > 0, MatrixInverse(M, D) returns a matrix whose product with
\* M @ M.T + diag(D) is the identity of size Npix.
C8_InverseTimesSigmaIsIdentity ==
    (/\ call.fn = "MatrixInverse"
     /\ res.outcome # "none"
     /\ \A p \in 1..Len(call.D) : call.D[p][1] > 0)
    => /\ res.outcome = "returned"
       /\ res.finite
       /\ MatMul(res.value, Sigma(call.M, call.D)) = Eye(call.M.nr)

\* MatrixInverse has returned for a positive D that is not constant and an M
\* of two columns, no row of which is zero
C8_Witness ==
    /\ call.fn = "MatrixInverse"
    /\ res.outcome = "returned"
    /\ call.M.nr >= 2
    /\ call.M.nc >= 2
    /\ \A p \in 1..Len(call.D) : call.D[p][1] > 0
    /\ call.D[1] # call.D[2]
    /\ \A r \in 1..call.M.nr : \E c \in 1..call.M.nc : call.M.a[<<r, c>>] # RZero
    /\ res.value # Diag(RecipD(call.D))

====
